---- MODULE Spec2Model ----
(***************************************************************************)
(* rocHPCG: the Jones-Plassmann-Luby multi-colouring of the matrix rows    *)
(* (src/src/MultiColoring.cpp) and the block-wise symmetric Gauss-Seidel   *)
(* sweeps that run on the colour blocks (src/src/ComputeSYMGS.cpp).        *)
(***************************************************************************)
EXTENDS Integers, Sequences, FiniteSets, TLC

(***************************************************************************)
(* Bounds of the model.                                                    *)
(***************************************************************************)
\* A.localNumberOfRows of the matrices explored.
NumRows == 3
\* The vector and matrix values are residues modulo a prime.
Modulus == 7
\* Capacity of A.sizes / A.offsets.  The macro is defined outside the two
\* source files; the model uses a small capacity that still admits the four
\* rounds with drawn colours and one round with counted colours.
MAX_COLORS == 12

\* rand() % 8 and the test A.nblocks < 8 (MultiColoring.cpp:259-260).
PaletteSize == 8
\* Thread limit of a kernel_jpl block (MultiColoring.cpp:239, 250).
MaxThreads == 512

Rows == 0 .. (NumRows - 1)
Pairs == {e \in Rows \X Rows : e[1] < e[2]}

\* The row hash assignments explored: ascending, descending and rotated
\* (all values distinct), pairwise equal, and all equal.
HashChoices ==
    { [r \in Rows |-> r],
      [r \in Rows |-> NumRows - 1 - r],
      [r \in Rows |-> (r + 1) % NumRows],
      [r \in Rows |-> r \div 2],
      [r \in Rows |-> 0] }

VARIABLES
    mtxIndL,      \* A.d_mtxIndL: row -> sequence of stored column indices (-1 pads)
    rowHash,      \* A.d_rowHash
    nnzPerRow,    \* A.numberOfNonzerosPerRow
    colors,       \* A.perm while it holds the colours (kernel_jpl's colors)
    perm,         \* A.perm after kernel_create_perm
    nblocks,      \* A.nblocks
    ublocks,      \* A.ublocks
    colored,      \* JPLColoring's local counter
    sizes,        \* A.sizes, the entries written so far
    offsets,      \* A.offsets, the entries written so far
    color1,       \* candidate colours of the running round
    color2,
    pending,      \* kernel_jpl threads <<row, slot>> before their compare
    maxf,         \* kernel_jpl's shared max[] flag of each row
    minf,         \* kernel_jpl's shared min[] flag of each row
    towrite,      \* rows whose thread 0 has not passed the final if
    pc,           \* position of the host in JPLColoring
    roundRows,    \* the rows without a colour when the running round began
    randSeq,      \* the values rand() returns after srand(RNG_SEED); <<>>: left open
    run,          \* 1 in the first JPLColoring on the matrix, 2 in the second
    first,        \* what the first JPLColoring left, kept for the comparison
    haloRows,     \* rows (original numbering) that store a column of another domain
    ell,          \* A.ell_col_ind in permuted numbering: row -> sequence of columns
    rhs,          \* r.d_values
    x,            \* x.d_values (local entries, then the ghost entries)
    x0,           \* x.d_values on entry of ComputeSYMGS
    xGen,         \* x.d_values left by ComputeSYMGS, kept for the comparison
    recvVal,      \* the boundary value the other domain sends
    sendBuf,      \* the send buffer PrepareSendBuffer fills
    recvDone,     \* ObtainRecvBuffer has returned
    call,         \* the smoothing function the host is in
    hpc,          \* position of the host in that function
    launched,     \* the kernels launched so far, in launch order
    kstat,        \* state of each launched kernel: queued, running, done
    threads,      \* running kernel threads: <<kernel, thread>> -> progress
    xPre,         \* x.d_values when the kernel started last began to run
    xlen,         \* x.localLength
    failed,       \* a launch of the running call has failed
    countPhase,   \* the counting step under way: idle, part1, part2, copied
    countIn,      \* size, colors and color handed to kernel_count_color_part1
    countPos,     \* <<block, tid>> -> position of the thread in its kernel
    sdata,        \* <<block, tid>> -> the block's shared array
    workspace,    \* the device workspace (tmp)
    countOut      \* the value hipMemcpy brings to the host

symgsVars == <<haloRows, ell, rhs, x, x0, xGen, recvVal, sendBuf, recvDone, call,
               hpc, launched, kstat, threads, xPre, xlen, failed>>

countVars == <<countPhase, countIn, countPos, sdata, workspace, countOut>>

jplVars == <<mtxIndL, rowHash, nnzPerRow, colors, perm, nblocks, ublocks, colored,
             sizes, offsets, color1, color2, pending, maxf, minf, towrite, pc,
             roundRows, randSeq, run, first>>

(***************************************************************************)
(* Integer helpers (the code's unsigned / int arithmetic).                 *)
(***************************************************************************)
RECURSIVE Pow2(_)
Pow2(k) == IF k = 0 THEN 1 ELSE 2 * Pow2(k - 1)

\* a | b on naturals.
RECURSIVE BitOr(_, _)
BitOr(a, b) ==
    IF a = 0 THEN b
    ELSE IF b = 0 THEN a
    ELSE (IF a % 2 = 1 \/ b % 2 = 1 THEN 1 ELSE 0) + 2 * BitOr(a \div 2, b \div 2)

\* 32 - __builtin_clz(v) for v > 0: the number of significant bits of v.
RECURSIVE BitLength(_)
BitLength(v) == IF v = 0 THEN 0 ELSE 1 + BitLength(v \div 2)

RECURSIVE ShiftDown(_, _)
ShiftDown(b, w) == IF b * w > MaxThreads THEN ShiftDown(b \div 2, w) ELSE b

\* JPLColoring's blocksize: rows handled by one kernel_jpl thread block.
Blocksize(w) ==
    LET b0 == MaxThreads \div w
        b1 == BitOr(b0, b0 \div 2)
        b2 == BitOr(b1, b1 \div 4)
        b3 == BitOr(b2, b2 \div 16)
        b4 == BitOr(b3, b3 \div 256)
        b5 == BitOr(b4, b4 \div 65536)
    IN  ShiftDown(b5 + 1, w)

(***************************************************************************)
(* Matrix structure.                                                       *)
(***************************************************************************)
\* The stored columns of a row of a structurally symmetric matrix with the
\* given off-diagonal pattern: the row itself and its neighbours, ascending.
RECURSIVE Ascending(_)
Ascending(S) ==
    IF S = {} THEN <<>>
    ELSE LET lo == CHOOSE a \in S : \A b \in S : a <= b
         IN  <<lo>> \o Ascending(S \ {lo})

RowColumns(edges, r) ==
    Ascending({r} \cup {c \in Rows : <<r, c>> \in edges \/ <<c, r>> \in edges})

\* The slots of a row that hold a column at all; the remaining slots up to
\* numberOfNonzerosPerRow hold -1.
Slots(r) == 1 .. Len(mtxIndL[r])

\* The columns kernel_jpl compares a row with: col >= 0 && col < m, col != row.
Neighbours(r) ==
    {mtxIndL[r][p] : p \in {q \in Slots(r) :
        mtxIndL[r][q] >= 0 /\ mtxIndL[r][q] < NumRows /\ mtxIndL[r][q] # r}}

(***************************************************************************)
(* JPLColoring.                                                            *)
(***************************************************************************)
InitColoring(widths, hashes, halos, streams) ==
    /\ countPhase = "idle"
    /\ countIn = <<>>
    /\ countPos = <<>>
    /\ sdata = <<>>
    /\ workspace = <<>>
    /\ countOut = -1
    /\ randSeq \in streams
    /\ run = 1
    /\ first = <<>>
    /\ roundRows = {}
    /\ haloRows \in halos
    /\ \E edges \in SUBSET Pairs :
          mtxIndL = [r \in Rows |->
                       RowColumns(edges, r)
                         \o (IF r \in haloRows THEN <<NumRows>> ELSE <<>>)]
    /\ rowHash \in hashes
    /\ nnzPerRow \in widths
    /\ colors = [r \in Rows |-> -1]
    /\ perm = [r \in Rows |-> -1]
    /\ nblocks = 0
    /\ ublocks = -1
    /\ colored = 0
    /\ sizes = <<>>
    /\ offsets = <<0>>
    /\ color1 = -1
    /\ color2 = -1
    /\ pending = {}
    /\ maxf = [r \in Rows |-> TRUE]
    /\ minf = [r \in Rows |-> TRUE]
    /\ towrite = {}
    /\ pc = "loop"
    /\ ell = <<>>
    /\ rhs = <<>>
    /\ x = <<>>
    /\ x0 = <<>>
    /\ xGen = <<>>
    /\ recvVal = 0
    /\ sendBuf = <<>>
    /\ recvDone = FALSE
    /\ call = "none"
    /\ hpc = 0
    /\ launched = <<>>
    /\ kstat = <<>>
    /\ threads = <<>>
    /\ xPre = <<>>
    /\ xlen = 0
    /\ failed = FALSE

\* The candidate colours a round can nominate.
\* rand() % 8 of call number i after srand(RNG_SEED).
Rand(i) ==
    IF randSeq = <<>> THEN 0 .. (PaletteSize - 1) ELSE {randSeq[i] % PaletteSize}

Candidates1 == IF nblocks < PaletteSize THEN Rand(nblocks + 1) ELSE {nblocks}

\* The second colour equal to the first after the palette rounds.
Candidates2Same == IF nblocks < PaletteSize THEN Rand(nblocks + 2) ELSE {nblocks}

Candidates2 == IF nblocks < PaletteSize THEN Rand(nblocks + 2) ELSE {nblocks + 1}

\* Threads of kernel_jpl that get past both early returns and the column test.
JplActiveThreads ==
    {t \in Rows \X (1 .. NumRows) :
        /\ t[2] \in Slots(t[1])
        /\ colors[t[1]] = -1
        /\ mtxIndL[t[1]][t[2]] >= 0
        /\ mtxIndL[t[1]][t[2]] < NumRows
        /\ mtxIndL[t[1]][t[2]] # t[1]}

\* while(colored != m): nominate the colours and launch kernel_jpl.
LaunchJpl ==
    /\ pc = "loop"
    /\ colored < NumRows
    /\ \E c1 \in Candidates1, c2 \in Candidates2 :
        /\ color1' = c1
        /\ color2' = c2
    /\ pending' = JplActiveThreads
    /\ towrite' = {r \in Rows : colors[r] = -1}
    /\ roundRows' = {r \in Rows : colors[r] = -1}
    /\ maxf' = [r \in Rows |-> TRUE]
    /\ minf' = [r \in Rows |-> TRUE]
    /\ pc' = "jpl"
    /\ UNCHANGED symgsVars
    /\ UNCHANGED countVars
    /\ UNCHANGED <<randSeq, run, first>>
    /\ UNCHANGED <<mtxIndL, rowHash, nnzPerRow, colors, perm, nblocks, ublocks,
                   colored, sizes, offsets>>

\* The neighbour colours a row is compared against.
Compared(color_nb) == color_nb = -1 \/ color_nb = color1 \/ color_nb = color2

NotMaximum(col_hash, row_hash) == col_hash >= row_hash
NotMinimum(col_hash, row_hash) == col_hash <= row_hash

\* One thread of kernel_jpl between the two barriers: load the neighbour's
\* colour as it is now, and clear the row's flags.
JplCompare(row, p) ==
    /\ pc = "jpl"
    /\ <<row, p>> \in pending
    /\ LET col == mtxIndL[row][p]
           color_nb == colors[col]
       IN  /\ maxf' = IF Compared(color_nb) /\ NotMaximum(rowHash[col], rowHash[row])
                      THEN [maxf EXCEPT ![row] = FALSE] ELSE maxf
           /\ minf' = IF Compared(color_nb) /\ NotMinimum(rowHash[col], rowHash[row])
                      THEN [minf EXCEPT ![row] = FALSE] ELSE minf
    /\ pending' = pending \ {<<row, p>>}
    /\ UNCHANGED symgsVars
    /\ UNCHANGED countVars
    /\ UNCHANGED <<randSeq, run, first>>
    /\ UNCHANGED <<mtxIndL, rowHash, nnzPerRow, colors, perm, nblocks, ublocks,
                   colored, sizes, offsets, color1, color2, towrite, pc,
                   roundRows>>

\* Rows of one thread block share its barriers.
SameBlock(r, s) == r \div Blocksize(nnzPerRow) = s \div Blocksize(nnzPerRow)

\* The colour thread 0 of a row stores after the second barrier.
JplColorOf(row) ==
    IF maxf[row] THEN color1 ELSE IF minf[row] THEN color2 ELSE colors[row]

\* Thread 0 of a row after the second __syncthreads.
JplColor(row) ==
    /\ pc = "jpl"
    /\ row \in towrite
    /\ \A t \in pending : ~SameBlock(t[1], row)
    /\ colors' = [colors EXCEPT ![row] = JplColorOf(row)]
    /\ towrite' = towrite \ {row}
    /\ UNCHANGED symgsVars
    /\ UNCHANGED countVars
    /\ UNCHANGED <<randSeq, run, first>>
    /\ UNCHANGED <<mtxIndL, rowHash, nnzPerRow, perm, nblocks, ublocks, colored,
                   sizes, offsets, color1, color2, pending, maxf, minf, pc,
                   roundRows>>

\* A reduction that drops one row of every count.
CountColorShort(color) == Cardinality({idx \in Rows : colors[idx] = color}) - 1

\* kernel_count_color_part1 + part2: the number of rows holding the colour.
CountColor(color) == Cardinality({idx \in Rows : colors[idx] = color})

\* The two counts, the copies to A.sizes, and the offsets of one round.
CountRound ==
    /\ pc = "jpl"
    /\ pending = {}
    /\ towrite = {}
    /\ IF nblocks + 2 >= MAX_COLORS
       THEN \* A.offsets[A.nblocks + 1] of the second block lies past the array
            /\ pc' = "overflow"
            /\ UNCHANGED <<nblocks, colored, sizes, offsets>>
       ELSE LET s1 == CountColor(color1)
                s2 == CountColor(color2)
            IN  /\ sizes' = sizes \o <<s1, s2>>
                /\ offsets' = offsets \o <<colored + s1, colored + s1 + s2>>
                /\ colored' = colored + s1 + s2
                /\ nblocks' = nblocks + 2
                /\ pc' = "loop"
    /\ color1' = -1
    /\ color2' = -1
    /\ maxf' = [r \in Rows |-> TRUE]
    /\ minf' = [r \in Rows |-> TRUE]
    /\ roundRows' = {}
    /\ UNCHANGED symgsVars
    /\ UNCHANGED countVars
    /\ UNCHANGED <<randSeq, run, first>>
    /\ UNCHANGED <<mtxIndL, rowHash, nnzPerRow, colors, perm, ublocks, pending,
                   towrite>>

\* colored only grows (every count is >= 0), so once it has passed the row
\* count the test colored != m stays true: the rounds go on until the second
\* offsets store of a round lies past the array.  The model takes these
\* rounds in one step.
Runaway ==
    /\ pc = "loop"
    /\ colored > NumRows
    /\ pc' = "overflow"
    /\ UNCHANGED symgsVars
    /\ UNCHANGED countVars
    /\ UNCHANGED <<randSeq, run, first>>
    /\ UNCHANGED <<mtxIndL, rowHash, nnzPerRow, colors, perm, nblocks, ublocks,
                   colored, sizes, offsets, color1, color2, pending, maxf, minf,
                   towrite,
                   roundRows>>

\* hipcub::DeviceRadixSort::SortPairs on key bits [0, endbit): the sort key.
SortKey(key, endbit) == key % Pow2(endbit)

\* Position of a row in the stable sort of (key, row) pairs.
SortedPosition(r, endbit) ==
    Cardinality({s \in Rows :
        \/ SortKey(colors[s], endbit) < SortKey(colors[r], endbit)
        \/ SortKey(colors[s], endbit) = SortKey(colors[r], endbit) /\ s < r})

\* vals.Current() after the sort: position -> original row.
SortedRows(endbit) ==
    [gid \in Rows |-> CHOOSE r \in Rows : SortedPosition(r, endbit) = gid]

\* kernel_create_perm: out[in[gid]] = gid.
CreatePerm(in) == [r \in Rows |-> CHOOSE gid \in Rows : in[gid] = r]

\* After the loop: ublocks, the sort and the permutation (non-reference build).
Finish ==
    /\ pc = "loop"
    /\ colored = NumRows
    /\ ublocks' = nblocks - 1 - 1
    /\ perm' = CreatePerm(SortedRows(BitLength(nblocks)))
    /\ pc' = "done"
    /\ UNCHANGED symgsVars
    /\ UNCHANGED countVars
    /\ UNCHANGED <<randSeq, run, first>>
    /\ UNCHANGED <<mtxIndL, rowHash, nnzPerRow, colors, nblocks, colored, sizes,
                   offsets, color1, color2, pending, maxf, minf, towrite,
                   roundRows>>

\* What a read of the freed A.d_rowHash can return: the old values, or any
\* other content of the memory.
DanglingHash == HashChoices \cup {rowHash}

\* JPLColoring(A) called again on the matrix: the prologue of the second run.
\* A.d_rowHash was released at the end of the first run.
Rerun ==
    /\ pc = "done"
    /\ run = 1
    /\ run' = 2
    /\ first' = [colors |-> colors, sizes |-> sizes, offsets |-> offsets,
                 nblocks |-> nblocks, perm |-> perm]
    /\ colors' = [r \in Rows |-> -1]
    /\ perm' = [r \in Rows |-> -1]
    /\ nblocks' = 0
    /\ colored' = 0
    /\ sizes' = <<>>
    /\ offsets' = <<0>>
    /\ rowHash' \in DanglingHash
    /\ pc' = "loop"
    /\ UNCHANGED symgsVars
    /\ UNCHANGED countVars
    /\ UNCHANGED <<mtxIndL, nnzPerRow, ublocks, color1, color2, pending, maxf, minf,
                   towrite, roundRows, randSeq>>

vars == <<jplVars, symgsVars, countVars>>

Init == InitColoring({27, 300}, HashChoices, {{}}, {<<>>})

Next ==
    \/ LaunchJpl
    \/ \E row \in Rows, p \in 1 .. NumRows : JplCompare(row, p)
    \/ \E row \in Rows : JplColor(row)
    \/ CountRound
    \/ Runaway
    \/ Finish

Spec == Init /\ [][Next]_vars

\* Two runs of JPLColoring on one matrix, with the stream of rand() fixed.
SeedStreams ==
    { <<1, 0, 2, 3, 4, 5, 6, 7>>,
      <<0, 0, 2, 0, 1, 1, 3, 3>>,
      <<4, 1, 4, 1, 0, 2, 5, 6>> }

InitRerun == InitColoring({27, 300}, HashChoices, {{}}, SeedStreams)

NextRerun ==
    \/ Next
    \/ Rerun

SpecRerun == InitRerun /\ [][NextRerun]_vars

\* A.sizes[b] and A.offsets[b] (0-based, as in the code).
SizeOf(b) == sizes[b + 1]
OffsetOf(b) == offsets[b + 1]

\* The rows that the block table places in block b.
BlockRows(b) ==
    {r \in Rows : OffsetOf(b) <= perm[r] /\ perm[r] < OffsetOf(b) + SizeOf(b)}

RECURSIVE SumSeq(_)
SumSeq(q) == IF q = <<>> THEN 0 ELSE Head(q) + SumSeq(Tail(q))

Terminated == pc = "done"

(***************************************************************************)
(* The smoother's data.  Values are residues modulo Modulus, so that the   *)
(* reciprocal of the diagonal is exact.                                    *)
(***************************************************************************)
Values == 0 .. (Modulus - 1)

\* fma(-a, b, sum) and the products of the kernels.
Mul(a, b) == (a * b) % Modulus
MulSub(sum, a, b) == (sum + (Modulus - Mul(a, b))) % Modulus
MulAdd(a, b, c) == (Mul(a, b) + c) % Modulus

\* sum / diag_val.
Div(a, d) == CHOOSE q \in Values : Mul(q, d) = a

\* The matrix values: one diagonal value with a reciprocal other than 1 and
\* -1, and -1 off the diagonal.
DiagVal ==
    CHOOSE d \in Values :
        /\ d > 1
        /\ d < Modulus - 1
        /\ \E q \in Values : Mul(q, d) = 1
        /\ \A e \in Values : (e > 1 /\ e < d) => ~(\E q \in Values : Mul(q, e) = 1)
OffVal == Modulus - 1

\* Number of columns of the local matrix: one ghost column per other domain.
GeomSize == IF haloRows = {} THEN 1 ELSE 1 + 1
NumCols == IF GeomSize > 1 THEN NumRows + 1 ELSE NumRows
Cols == 0 .. (NumCols - 1)

\* The row that the permutation sends to position i.
OriginalRow(i) == CHOOSE o \in Rows : perm[o] = i

\* A column index after the permutation of the matrix: local columns are
\* renumbered, ghost columns keep their index.
PermutedColumn(c) == IF c < NumRows THEN perm[c] ELSE c

\* The ELL column indices of the permuted matrix: each row's columns
\* ascending, so that smaller columns lie below the diagonal slot.
PermutedEll ==
    [i \in Rows |->
        Ascending({PermutedColumn(mtxIndL[OriginalRow(i)][p]) :
                      p \in Slots(OriginalRow(i))})]

\* A.ell_val, A.inv_diag, A.diag_idx.
EllVal(row, p) == IF ell[row][p] = row THEN DiagVal ELSE OffVal
InvDiag(row) == Div(1, DiagVal)
DiagIdx(row) == CHOOSE p \in 1 .. Len(ell[row]) : ell[row][p] = row

\* A.halo_row_ind, A.halo_col_ind, A.halo_val: the rows with a column of
\* another domain, in original numbering, and that column.
HaloRowInd == Ascending(haloRows)
HaloColInd(h) == <<NumRows>>
HaloVal(h, p) == OffVal

\* The right-hand sides and starting vectors explored.
RhsChoices == {[i \in Rows |-> 1], [i \in Rows |-> (i + 1) % Modulus]}
StartChoices(len) ==
    {[c \in 0 .. (len - 1) |-> 0], [c \in 0 .. (len - 1) |-> (c + 1) % Modulus],
     [c \in 0 .. (len - 1) |-> IF c < NumRows THEN 0 ELSE 1]}
\* x.localLength: the number of columns, or one entry more.
LengthChoices == {NumCols, NumCols + 1}
RecvChoices == {0, 1}

\* Optimisation set-up between JPLColoring and the first smoother call: the
\* matrix is permuted and converted to ELL, the vectors are allocated.  The
\* colouring's work arrays are released.
Setup ==
    /\ pc = "done"
    /\ call = "none"
    /\ ell' = PermutedEll
    /\ rhs' \in RhsChoices
    /\ xlen' \in LengthChoices
    /\ x0' \in StartChoices(xlen')
    /\ x' = x0'
    /\ recvVal' \in (IF GeomSize > 1 THEN RecvChoices ELSE {0})
    /\ call' = "ready"
    /\ pc' = "optimized"
    /\ mtxIndL' = <<>>
    /\ rowHash' = <<>>
    /\ colors' = perm
    /\ UNCHANGED <<xPre, failed, haloRows, xGen, sendBuf, recvDone, hpc, launched,
                   kstat, threads>>
    /\ UNCHANGED countVars
    /\ UNCHANGED <<nnzPerRow, perm, nblocks, ublocks, colored, sizes, offsets,
                   color1, color2, pending, maxf, minf, towrite, roundRows,
                   randSeq, run, first>>

(***************************************************************************)
(* The host side of ComputeSYMGS and ComputeSYMGSZeroGuess.                *)
(***************************************************************************)
HostOp(op, kind, stream, blk) ==
    [op |-> op, kind |-> kind, stream |-> stream, blk |-> blk]
Launch(kind, stream, blk) == HostOp("launch", kind, stream, blk)

\* The forward loop run from the last block down.
ForwardBlocksDescending(kind) ==
    [j \in 1 .. (nblocks - 1) |-> Launch(kind, "default", nblocks - j)]

\* for(i = 1; i < A.nblocks; ++i)
ForwardBlocks(kind) ==
    [j \in 1 .. (nblocks - 1) |-> Launch(kind, "default", j)]

\* for(i = A.ublocks; i >= 0; --i)
BackwardBlocks(kind) ==
    [j \in 1 .. (ublocks + 1) |-> Launch(kind, "default", ublocks + 1 - j)]

\* ComputeSYMGS with the halo kernel launched ahead of the exchange.
SymgsProgramHaloFirst ==
    (IF GeomSize > 1 THEN <<HostOp("prepare", "", "", 0)>> ELSE <<>>)
    \o <<Launch("interior", "interior", 0)>>
    \o (IF GeomSize > 1
        THEN <<Launch("halo", "default", 0), HostOp("exchange", "", "", 0),
               HostOp("obtain", "", "", 0)>>
        ELSE <<>>)
    \o ForwardBlocks("sweep")
    \o BackwardBlocks("sweep")
    \o <<HostOp("return", "", "", 0)>>

\* The calls ComputeSYMGS makes, in order.
SymgsProgram ==
    (IF GeomSize > 1 THEN <<HostOp("prepare", "", "", 0)>> ELSE <<>>)
    \o <<Launch("interior", "interior", 0)>>
    \o (IF GeomSize > 1
        THEN <<HostOp("exchange", "", "", 0), HostOp("obtain", "", "", 0),
               Launch("halo", "default", 0)>>
        ELSE <<>>)
    \o ForwardBlocks("sweep")
    \o BackwardBlocks("sweep")
    \o <<HostOp("return", "", "", 0)>>

\* The calls ComputeSYMGSZeroGuess makes, in order.
ZeroGuessProgram ==
    <<Launch("pointwise", "default", 0)>>
    \o ForwardBlocks("forward0")
    \o BackwardBlocks("backward0")
    \o <<HostOp("return", "", "", 0)>>

Program == IF call = "symgs" THEN SymgsProgram ELSE ZeroGuessProgram
InCall == call \in {"symgs", "zero"}
HostAt(op) == InCall /\ hpc <= Len(Program) /\ Program[hpc].op = op

AllKernelsDone == \A k \in 1 .. Len(kstat) : kstat[k] = "done"

\* The assertion compiled out.
AssertSkipped == TRUE

\* assert(x.localLength == A.localNumberOfColumns)
AssertHolds == xlen = NumCols

\* The caller enters ComputeSYMGS(A, r, x).
CallSYMGS ==
    /\ call = "ready"
    /\ IF AssertHolds
       THEN call' = "symgs" /\ hpc' = 1
       ELSE call' = "aborted" /\ hpc' = hpc
    /\ UNCHANGED <<xPre, xlen, failed, haloRows, ell, rhs, x, x0, xGen, recvVal,
                   sendBuf, recvDone, launched, kstat, threads>>
    /\ UNCHANGED jplVars
    /\ UNCHANGED countVars

\* The caller enters ComputeSYMGSZeroGuess(A, r, x) with the local entries of
\* x zero: as its first call, whatever the ghost entries hold, or after the
\* device has finished a ComputeSYMGS that started from zero, whose result
\* it keeps.
CallZeroGuess ==
    /\ \/ call = "ready"
       \/ call = "symgsReturned" /\ AllKernelsDone /\ \A c \in Cols : x0[c] = 0
    /\ \A c \in Rows : x0[c] = 0
    /\ recvVal = 0
    /\ IF AssertHolds
       THEN /\ xGen' = IF call = "ready" THEN xGen ELSE x
            /\ x' = x0
            /\ call' = "zero"
            /\ hpc' = 1
            /\ launched' = <<>>
            /\ kstat' = <<>>
            /\ failed' = FALSE
       ELSE /\ call' = "aborted"
            /\ UNCHANGED <<xGen, x, hpc, launched, kstat, failed>>
    /\ UNCHANGED <<xPre, xlen, haloRows, ell, rhs, x0, recvVal, sendBuf, recvDone,
                   threads>>
    /\ UNCHANGED jplVars
    /\ UNCHANGED countVars

\* PrepareSendBuffer(A, x): pack the boundary values of x.
HostPrepare ==
    /\ HostAt("prepare")
    /\ sendBuf' = [h \in 1 .. Len(HaloRowInd) |-> x[perm[HaloRowInd[h]]]]
    /\ hpc' = hpc + 1
    /\ UNCHANGED <<xPre, xlen, failed, haloRows, ell, rhs, x, x0, xGen, recvVal, recvDone, call,
                   launched, kstat, threads>>
    /\ UNCHANGED jplVars
    /\ UNCHANGED countVars

\* hipLaunchKernelGGL: the kernel joins its stream; the host goes on.
HostLaunch ==
    /\ HostAt("launch")
    /\ launched' = Append(launched, Program[hpc])
    /\ kstat' = Append(kstat, "queued")
    /\ hpc' = hpc + 1
    /\ UNCHANGED <<xPre, xlen, failed, haloRows, ell, rhs, x, x0, xGen, recvVal, sendBuf, recvDone,
                   call, threads>>
    /\ UNCHANGED jplVars
    /\ UNCHANGED countVars

\* hipLaunchKernelGGL fails: no kernel joins the stream, the error is left
\* with the runtime and the host goes on.
HostLaunchFails ==
    /\ HostAt("launch")
    /\ ~failed
    /\ failed' = TRUE
    /\ hpc' = hpc + 1
    /\ UNCHANGED <<xPre, xlen, haloRows, ell, rhs, x, x0, xGen, recvVal, sendBuf,
                   recvDone, call, launched, kstat, threads>>
    /\ UNCHANGED jplVars
    /\ UNCHANGED countVars

\* ExchangeHaloAsync(A): post the receive and the send of the packed buffer.
HostExchange ==
    /\ HostAt("exchange")
    /\ hpc' = hpc + 1
    /\ UNCHANGED <<xPre, xlen, failed, haloRows, ell, rhs, x, x0, xGen, recvVal, sendBuf, recvDone,
                   call, launched, kstat, threads>>
    /\ UNCHANGED jplVars
    /\ UNCHANGED countVars

\* ObtainRecvBuffer(A, x): returns when the ghost entries of x hold the
\* values received.
HostObtain ==
    /\ HostAt("obtain")
    /\ x' = [x EXCEPT ![NumRows] = recvVal]
    /\ recvDone' = TRUE
    /\ hpc' = hpc + 1
    /\ UNCHANGED <<xPre, xlen, failed, haloRows, ell, rhs, x0, xGen, recvVal, sendBuf, call,
                   launched, kstat, threads>>
    /\ UNCHANGED jplVars
    /\ UNCHANGED countVars

\* return 0.
ReturnValue == 0

HostReturn ==
    /\ HostAt("return")
    /\ call' = IF call = "symgs" THEN "symgsReturned" ELSE "zeroReturned"
    /\ hpc' = 0
    /\ UNCHANGED <<xPre, xlen, failed, haloRows, ell, rhs, x, x0, xGen, recvVal, sendBuf, recvDone,
                   launched, kstat, threads>>
    /\ UNCHANGED jplVars
    /\ UNCHANGED countVars

(***************************************************************************)
(* The device side: streams, kernels and their threads.                    *)
(***************************************************************************)
\* Work of two streams is ordered when it is the same stream, or when one
\* of them is the default stream, which synchronises with the others.
StreamOrdered(s, t) == s = t \/ s = "default" \/ t = "default"

\* A queued kernel may start when the ordered work launched before it is done.
CanStart(k) ==
    \A j \in 1 .. (k - 1) :
        StreamOrdered(launched[j].stream, launched[k].stream) => kstat[j] = "done"

\* The launches with the halo kernel's test perm_idx >= block_nrow left out.
KernelThreadsEveryHaloRow(kern) ==
    IF kern.kind = "halo"
    THEN 1 .. Len(HaloRowInd)
    ELSE IF kern.kind \in {"interior", "pointwise"}
    THEN 0 .. (SizeOf(0) - 1)
    ELSE OffsetOf(kern.blk) .. (OffsetOf(kern.blk) + SizeOf(kern.blk) - 1)

\* The threads of a launch that get past the early returns: for the halo
\* kernel the entries of halo_row_ind, for the others the rows of the block.
KernelThreads(kern) ==
    IF kern.kind = "halo"
    THEN {h \in 1 .. Len(HaloRowInd) : perm[HaloRowInd[h]] < SizeOf(0)}
    ELSE IF kern.kind \in {"interior", "pointwise"}
    THEN 0 .. (SizeOf(0) - 1)
    ELSE OffsetOf(kern.blk) .. (OffsetOf(kern.blk) + SizeOf(kern.blk) - 1)

\* The entry of x a thread stores to.
TargetRow(kern, t) == IF kern.kind = "halo" THEN perm[HaloRowInd[t]] ELSE t

\* The slot test with the sweep kernel limited to the columns below its
\* block.
ReadsSlotBelowOffset(kern, row, p) ==
    LET col == ell[row][p]
    IN  IF kern.kind = "interior" THEN col >= 0 /\ col < NumRows /\ col # row
        ELSE IF kern.kind = "sweep"
        THEN col >= 0 /\ col < OffsetOf(kern.blk) /\ col # row
        ELSE IF kern.kind = "forward0"
        THEN p < DiagIdx(row) /\ col >= 0 /\ col < OffsetOf(kern.blk)
        ELSE IF kern.kind = "backward0"
        THEN p > DiagIdx(row) /\ col >= OffsetOf(kern.blk) /\ col < NumRows
        ELSE FALSE

\* The slot test with the interior kernel taking the ghost columns too.
ReadsSlotInteriorAllCols(kern, row, p) ==
    LET col == ell[row][p]
    IN  IF kern.kind = "interior" THEN col >= 0 /\ col < NumCols /\ col # row
        ELSE IF kern.kind = "sweep" THEN col >= 0 /\ col < NumCols /\ col # row
        ELSE IF kern.kind = "forward0"
        THEN p < DiagIdx(row) /\ col >= 0 /\ col < OffsetOf(kern.blk)
        ELSE IF kern.kind = "backward0"
        THEN p > DiagIdx(row) /\ col >= OffsetOf(kern.blk) /\ col < NumRows
        ELSE FALSE

\* The slot test with the backward loop of the zero-guess smoother taking
\* every column from its block's offset on.
ReadsSlotNoRowLimit(kern, row, p) ==
    LET col == ell[row][p]
    IN  IF kern.kind = "interior" THEN col >= 0 /\ col < NumRows /\ col # row
        ELSE IF kern.kind = "sweep" THEN col >= 0 /\ col < NumCols /\ col # row
        ELSE IF kern.kind = "forward0"
        THEN p < DiagIdx(row) /\ col >= 0 /\ col < OffsetOf(kern.blk)
        ELSE IF kern.kind = "backward0"
        THEN p > DiagIdx(row) /\ col >= OffsetOf(kern.blk)
        ELSE FALSE

\* The slot test with the backward loop of the zero-guess smoother starting
\* at the diagonal slot.
ReadsSlotFromDiagonal(kern, row, p) ==
    LET col == ell[row][p]
    IN  IF kern.kind = "interior" THEN col >= 0 /\ col < NumRows /\ col # row
        ELSE IF kern.kind = "sweep" THEN col >= 0 /\ col < NumCols /\ col # row
        ELSE IF kern.kind = "forward0"
        THEN p < DiagIdx(row) /\ col >= 0 /\ col < OffsetOf(kern.blk)
        ELSE IF kern.kind = "backward0"
        THEN p >= DiagIdx(row) /\ col >= OffsetOf(kern.blk) /\ col < NumRows
        ELSE FALSE

\* The test a kernel applies to slot p of a row before it loads x[col].
ReadsSlot(kern, row, p) ==
    LET col == ell[row][p]
    IN  IF kern.kind = "interior" THEN col >= 0 /\ col < NumRows /\ col # row
        ELSE IF kern.kind = "sweep" THEN col >= 0 /\ col < NumCols /\ col # row
        ELSE IF kern.kind = "forward0"
        THEN p < DiagIdx(row) /\ col >= 0 /\ col < OffsetOf(kern.blk)
        ELSE IF kern.kind = "backward0"
        THEN p > DiagIdx(row) /\ col >= OffsetOf(kern.blk) /\ col < NumRows
        ELSE FALSE

\* The loads of x a thread makes, in slot order: <<column, coefficient>>.
ThreadReads(kern, t) ==
    IF kern.kind = "halo"
    THEN LET cols == HaloColInd(t)
             ps == Ascending({p \in 1 .. Len(cols) : cols[p] >= 0 /\ cols[p] < NumCols})
         IN  [j \in 1 .. Len(ps) |-> <<cols[ps[j]], HaloVal(t, ps[j])>>]
    ELSE IF kern.kind = "pointwise" THEN <<>>
    ELSE LET ps == Ascending({p \in 1 .. Len(ell[t]) : ReadsSlot(kern, t, p)})
         IN  [j \in 1 .. Len(ps) |-> <<ell[t][ps[j]], EllVal(t, ps[j])>>]

\* The value a thread starts its sum from.
InitialSum(kern, t) ==
    IF kern.kind = "halo" THEN 0
    ELSE IF kern.kind = "backward0" THEN Mul(x[t], EllVal(t, DiagIdx(t)))
    ELSE rhs[t]

\* The value a thread stores.
StoredValue(kern, t, sum) ==
    IF kern.kind = "halo"
    THEN MulAdd(sum, InvDiag(HaloRowInd[t]), x[TargetRow(kern, t)])
    ELSE IF kern.kind \in {"forward0", "backward0"}
    THEN Div(sum, EllVal(t, DiagIdx(t)))
    ELSE Mul(sum, InvDiag(t))

ThreadsOf(k) == {id \in DOMAIN threads : id[1] = k}

\* The device starts a queued kernel.
StartKernel(k) ==
    /\ k \in 1 .. Len(launched)
    /\ kstat[k] = "queued"
    /\ CanStart(k)
    /\ LET ts == KernelThreads(launched[k])
       IN  IF ts = {}
           THEN /\ kstat' = [kstat EXCEPT ![k] = "done"]
                /\ UNCHANGED threads
           ELSE /\ kstat' = [kstat EXCEPT ![k] = "running"]
                /\ threads' =
                     [id \in DOMAIN threads \cup {<<k, t>> : t \in ts} |->
                        IF id \in DOMAIN threads THEN threads[id]
                        ELSE [n |-> 0, sum |-> InitialSum(launched[k], id[2])]]
    /\ xPre' = x
    /\ UNCHANGED <<xlen, failed, haloRows, ell, rhs, x, x0, xGen, recvVal, sendBuf,
                   recvDone, call, hpc, launched>>
    /\ UNCHANGED jplVars
    /\ UNCHANGED countVars

\* A thread loads one x[col] and updates its sum.
ThreadRead(k, t) ==
    /\ <<k, t>> \in DOMAIN threads
    /\ LET th == threads[<<k, t>>]
           reads == ThreadReads(launched[k], t)
       IN  /\ th.n < Len(reads)
           /\ threads' = [threads EXCEPT ![<<k, t>>] =
                 [n |-> th.n + 1,
                  sum |-> MulSub(th.sum, reads[th.n + 1][2], x[reads[th.n + 1][1]])]]
    /\ UNCHANGED <<xPre, xlen, failed, haloRows, ell, rhs, x, x0, xGen, recvVal, sendBuf, recvDone,
                   call, hpc, launched, kstat>>
    /\ UNCHANGED jplVars
    /\ UNCHANGED countVars

\* A thread stores its entry of x and ends; the kernel is done with its last
\* thread.
ThreadWrite(k, t) ==
    /\ <<k, t>> \in DOMAIN threads
    /\ LET th == threads[<<k, t>>]
       IN  /\ th.n = Len(ThreadReads(launched[k], t))
           /\ x' = [x EXCEPT ![TargetRow(launched[k], t)] =
                        StoredValue(launched[k], t, th.sum)]
    /\ threads' = [id \in DOMAIN threads \ {<<k, t>>} |-> threads[id]]
    /\ kstat' = IF ThreadsOf(k) = {<<k, t>>}
                THEN [kstat EXCEPT ![k] = "done"] ELSE kstat
    /\ UNCHANGED <<xPre, xlen, failed, haloRows, ell, rhs, x0, xGen, recvVal, sendBuf, recvDone,
                   call, hpc, launched>>
    /\ UNCHANGED jplVars
    /\ UNCHANGED countVars

MaxKernels == 2 * MAX_COLORS + 2
KernelIds == 1 .. MaxKernels
ThreadIds == 0 .. NumRows

SymgsHashes == {[r \in Rows |-> r], [r \in Rows |-> NumRows - 1 - r]}
SymgsHalos == {{}, {0}}

InitSYMGS == InitColoring({27}, SymgsHashes, SymgsHalos, {<<>>})

NextSYMGS ==
    \/ Next
    \/ Setup
    \/ CallSYMGS
    \/ CallZeroGuess
    \/ HostPrepare
    \/ HostLaunch
    \/ HostExchange
    \/ HostObtain
    \/ HostReturn
    \/ \E k \in KernelIds : StartKernel(k)
    \/ \E k \in KernelIds, t \in ThreadIds : ThreadRead(k, t)
    \/ \E k \in KernelIds, t \in ThreadIds : ThreadWrite(k, t)

SpecSYMGS == InitSYMGS /\ [][NextSYMGS]_vars

\* The same runs with launches that can fail.
InitFault == InitColoring({27}, {[r \in Rows |-> r]}, SymgsHalos, {<<>>})

NextFault ==
    \/ NextSYMGS
    \/ HostLaunchFails

SpecFault == InitFault /\ [][NextFault]_vars

(***************************************************************************)
(* Claims about JPLColoring.                                               *)
(***************************************************************************)

\* C1: when JPLColoring has terminated, no row has the colour of one of its
\* stored local off-diagonal neighbours.
C1_ProperColoring ==
    Terminated => \A r \in Rows : \A c \in Neighbours(r) : colors[r] # colors[c]

\* C2: when JPLColoring has terminated, the rows that the block table places
\* in a block share one colour and are pairwise non-adjacent, and the colours
\* of consecutive blocks ascend strictly.
C2_BlocksMatchPermutation ==
    Terminated =>
        \A b \in 0 .. (nblocks - 1) :
            /\ \A r \in BlockRows(b), s \in BlockRows(b) :
                    colors[r] = colors[s] /\ s \notin Neighbours(r)
            /\ b + 1 < nblocks =>
                    \A r \in BlockRows(b), s \in BlockRows(b + 1) : colors[r] < colors[s]

\* C4: the round loop always ends by reaching colored == m: the function never
\* stops anywhere else.
C4_RoundLoopExits == Terminated \/ ENABLED Next

\* C5: when the loop has exited, every row has a colour and the block sizes
\* add up to the row count.
C5_ColorCompleteness ==
    Terminated => (\A r \in Rows : colors[r] # -1) /\ SumSeq(sizes) = NumRows

\* C6: when JPLColoring has terminated, perm is a bijection on the rows that
\* orders them by colour, rows of one colour by ascending row index.
C6_PermutationSortsByColor ==
    Terminated =>
        /\ \A r \in Rows : perm[r] \in Rows
        /\ \A r \in Rows, s \in Rows : r # s => perm[r] # perm[s]
        /\ \A r \in Rows, s \in Rows :
                perm[r] < perm[s] =>
                    /\ colors[r] <= colors[s]
                    /\ colors[r] = colors[s] => r < s

(***************************************************************************)
(* The sequential symmetric Gauss-Seidel sweep over the permuted matrix.   *)
(***************************************************************************)
\* r[row] minus the off-diagonal products of slots p .. end of the row.
RECURSIVE RowSum(_, _, _)
RowSum(v, row, p) ==
    IF p > Len(ell[row]) THEN rhs[row]
    ELSE IF ell[row][p] = row THEN RowSum(v, row, p + 1)
    ELSE MulSub(RowSum(v, row, p + 1), EllVal(row, p), v[ell[row][p]])

RowUpdate(v, row) == [v EXCEPT ![row] = Mul(RowSum(v, row, 1), InvDiag(row))]

\* Rows row .. m-1 in ascending order.
RECURSIVE SeqForward(_, _)
SeqForward(v, row) ==
    IF row >= NumRows THEN v ELSE SeqForward(RowUpdate(v, row), row + 1)

\* Rows row .. 0 in descending order.
RECURSIVE SeqBackward(_, _)
SeqBackward(v, row) ==
    IF row < 0 THEN v ELSE SeqBackward(RowUpdate(v, row), row - 1)

\* The vector the sweeps start from: x on entry, with the ghost entries the
\* halo exchange delivers.
SweepStart == [c \in Cols |-> IF c < NumRows THEN x0[c] ELSE recvVal]

SeqSYMGS == SeqBackward(SeqForward(SweepStart, 0), NumRows - 1)

SymgsFinished == call = "symgsReturned" /\ AllKernelsDone
ZeroGuessFinished == call = "zeroReturned" /\ AllKernelsDone

(***************************************************************************)
(* Claims about ComputeSYMGS and ComputeSYMGSZeroGuess.                    *)
(***************************************************************************)

\* C3: when ComputeSYMGS has finished on a matrix coloured by JPLColoring, x
\* is the result of the sequential forward-then-backward sweep over the rows
\* in permuted order from the same starting vector.
C3_SymgsEqualsSequential == SymgsFinished => x = SeqSYMGS

InSymgs == call \in {"symgs", "symgsReturned"}

\* The kernels of ComputeSYMGS that process a colour block, as positions of
\* launched, and the blocks they process.
BlockKernels == {k \in 1 .. Len(launched) : launched[k].kind \in {"interior", "sweep"}}
BlocksLaunched ==
    LET ks == Ascending(BlockKernels)
    IN  [j \in 1 .. Len(ks) |-> launched[ks[j]].blk]

\* Block 0, blocks 1 .. nblocks-1 ascending, then blocks ublocks .. 0.
BlockSequence ==
    [j \in 1 .. (nblocks + ublocks + 1) |->
        IF j <= nblocks THEN j - 1 ELSE ublocks - (j - nblocks - 1)]

IsPrefix(s, t) == Len(s) <= Len(t) /\ \A j \in 1 .. Len(s) : s[j] = t[j]

PackedStart == [h \in 1 .. Len(HaloRowInd) |-> x0[perm[HaloRowInd[h]]]]
KernelsOfKind(kind) == {k \in 1 .. Len(launched) : launched[k].kind = kind}

ThreadReadColumns(kern, t) ==
    {ThreadReads(kern, t)[j][1] : j \in 1 .. Len(ThreadReads(kern, t))}

ConflictFree(kern) ==
    \A t \in KernelThreads(kern) : \A u \in KernelThreads(kern) :
        t # u =>
           /\ TargetRow(kern, t) # TargetRow(kern, u)
           /\ TargetRow(kern, u) \notin ThreadReadColumns(kern, t)

\* C9: in every launch of a smoother kernel each entry of x is stored by at
\* most one thread and no thread loads an entry that another thread of the
\* same launch stores; r is not written.
C9_LaunchConflictFree ==
    /\ [](\A k \in 1 .. Len(launched) : ConflictFree(launched[k]))
    /\ [][pc = "optimized" => rhs' = rhs]_vars

\* C10: on x = 0 (local and ghost entries), with each row's smaller columns
\* below its diagonal slot and larger columns above, ComputeSYMGSZeroGuess
\* leaves the x that ComputeSYMGS leaves.
C10_ZeroGuessEqualsGeneral == (ZeroGuessFinished /\ xGen # <<>>) => x = xGen

\* The halo kernel's sum of one halo row over the vector v: minus the
\* products of slots p .. end.
RECURSIVE HaloSum(_, _, _)
HaloSum(v, h, p) ==
    IF p > Len(HaloColInd(h)) THEN 0
    ELSE IF HaloColInd(h)[p] >= 0 /\ HaloColInd(h)[p] < NumCols
    THEN MulSub(HaloSum(v, h, p + 1), HaloVal(h, p), v[HaloColInd(h)[p]])
    ELSE HaloSum(v, h, p + 1)

\* x[perm[row]] of halo row h with the correction added to its value of
\* before the launch.
HaloCorrected(h) ==
    MulAdd(HaloSum(x, h, 1), InvDiag(HaloRowInd[h]), xPre[perm[HaloRowInd[h]]])

\* The halo kernel is done and no later kernel has started.
HaloLaunchDone ==
    /\ call = "symgs"
    /\ \E k \in KernelsOfKind("halo") :
          /\ kstat[k] = "done"
          /\ \A j \in 1 .. Len(kstat) : j > k => kstat[j] = "queued"

HaloIndices == 1 .. Len(HaloRowInd)

\* C11 as stated: after the halo launch every row of halo_row_ind, in
\* whichever block, holds its value of before the launch plus the correction.
C11_EveryHaloRowCorrected ==
    HaloLaunchDone =>
        \A h \in HaloIndices : x[perm[HaloRowInd[h]]] = HaloCorrected(h)

\* C11 amended: after the halo launch every row of halo_row_ind whose
\* permuted position lies in block 0 holds its value of before the launch
\* plus the correction, and every other entry of x is as before the launch.
C11_BlockZeroHaloRowsCorrected ==
    HaloLaunchDone =>
        /\ \A h \in HaloIndices :
              x[perm[HaloRowInd[h]]] =
                 IF perm[HaloRowInd[h]] < SizeOf(0)
                 THEN HaloCorrected(h) ELSE xPre[perm[HaloRowInd[h]]]
        /\ \A c \in Cols :
              (\A h \in HaloIndices : perm[HaloRowInd[h]] # c) => x[c] = xPre[c]

\* The halo launch is done with a nonzero correction added to a block-0 row.
C11_Witness ==
    /\ HaloLaunchDone
    /\ \E h \in HaloIndices :
          /\ perm[HaloRowInd[h]] < SizeOf(0)
          /\ x[perm[HaloRowInd[h]]] # xPre[perm[HaloRowInd[h]]]

Returned == call \in {"symgsReturned", "zeroReturned"}

\* C12: when ComputeSYMGS or ComputeSYMGSZeroGuess has returned, the status
\* is nonzero if a kernel launch of the call failed, and 0 only if none did.
C12_FailureReturnsNonzero ==
    Returned => (failed => ReturnValue # 0) /\ (ReturnValue = 0 => ~failed)

Aborted == call = "aborted"

\* C13: with x.localLength different from A.localNumberOfColumns both
\* functions stop at the assertion: nothing is launched, no transport call
\* is made, x and the buffers are as on entry; with equal lengths the
\* assertion does not fire.
C13_AssertionGuardsEntry ==
    /\ Aborted =>
          /\ xlen # NumCols
          /\ x = x0
          /\ launched = <<>>
          /\ sendBuf = <<>>
          /\ ~recvDone
          /\ rhs \in RhsChoices
    /\ (call \notin {"none", "ready"} /\ xlen = NumCols) => ~Aborted
    /\ (call \notin {"none", "ready"} /\ xlen # NumCols) => Aborted

\* A call with one entry too many in x has stopped at the assertion.
C13_Witness == Aborted /\ xlen = NumCols + 1

(***************************************************************************)
(* Further claims about JPLColoring.                                       *)
(***************************************************************************)
RoundsExecuted == nblocks \div 2

\* The rounds whose two blocks fit A.sizes and A.offsets.
SafetyBound == (MAX_COLORS \div 2) - 1

\* C14: no round of JPLColoring runs once the number of rounds executed has
\* reached the safety bound; the function has stopped with an error instead.
C14_RoundBoundSignalled == pc = "jpl" => RoundsExecuted < SafetyBound

FirstResult ==
    [colors |-> colors, sizes |-> sizes, offsets |-> offsets,
     nblocks |-> nblocks, perm |-> perm]

\* C15: a second run of JPLColoring on the matrix, with the same adjacency,
\* hash array and seed, ends with the colours, sizes, offsets, nblocks and
\* permutation of the first run, whatever the order of the kernel threads.
C15_RerunReproduces == (run = 2 /\ Terminated) => FirstResult = first

\* C16: after JPLColoring offsets[0] is 0 and the offsets are strictly
\* increasing over the recorded blocks: no recorded block is empty.
C16_OffsetsStrictlyIncreasing ==
    Terminated =>
        /\ OffsetOf(0) = 0
        /\ \A b \in 0 .. (nblocks - 1) : OffsetOf(b) < OffsetOf(b + 1)

\* C16 (amended): after JPLColoring offsets[0] is 0 and the offsets never
\* decrease over the recorded blocks; a recorded block may be empty.
C16_OffsetsNonDecreasing ==
    Terminated =>
        /\ OffsetOf(0) = 0
        /\ \A b \in 0 .. (nblocks - 1) : OffsetOf(b) <= OffsetOf(b + 1)

C16_Witness ==
    /\ Terminated
    /\ \E b \in 0 .. (nblocks - 1) : OffsetOf(b) = OffsetOf(b + 1)
    /\ \E b \in 0 .. (nblocks - 1) : OffsetOf(b) < OffsetOf(b + 1)

\* The rows coloured before the round in flight was launched.
EarlierRows == Rows \ roundRows

Palette == 0 .. (PaletteSize - 1)

FreshPair ==
    /\ color1 # color2
    /\ \A r \in EarlierRows : colors[r] # color1 /\ colors[r] # color2

\* C17: in each of the first 8 rounds both candidate colours come from the
\* palette 0..7; in every later round color1 and color2 are two distinct
\* colours that no row received in an earlier round.
C17_PaletteForEightRounds ==
    pc = "jpl" =>
        IF RoundsExecuted < PaletteSize
        THEN color1 \in Palette /\ color2 \in Palette
        ELSE FreshPair

\* C17 (amended): while fewer than 8 blocks are recorded (the first 4
\* rounds) both candidate colours come from the palette 0..7; in every later
\* round color1 and color2 are two distinct colours that no row received in
\* an earlier round.
C17_PaletteForEightBlocks ==
    pc = "jpl" =>
        IF nblocks < PaletteSize
        THEN color1 \in Palette /\ color2 \in Palette
        ELSE FreshPair

C17_Witness ==
    /\ pc = "jpl"
    /\ nblocks >= PaletteSize
    /\ color1 = nblocks
    /\ EarlierRows # {}

\* The rows that received the colour during the round in flight.
NewlyColored(color) == Cardinality({r \in roundRows : colors[r] = color})

\* C18: the two sizes recorded at the end of a round are the numbers of rows
\* that received color1 and color2 during that round, rows coloured in
\* earlier rounds not counted, and the offsets advance by exactly those sizes.
C18_SizesCountRoundOnly ==
    [][(pc = "jpl" /\ pc' = "loop") =>
        /\ sizes' = sizes \o <<NewlyColored(color1), NewlyColored(color2)>>
        /\ offsets' = offsets \o
               <<offsets[Len(offsets)] + NewlyColored(color1),
                 offsets[Len(offsets)] + NewlyColored(color1) + NewlyColored(color2)>>]_vars

(***************************************************************************)
(* Further claims about the sweeps.                                        *)
(***************************************************************************)
\* Kernel k was the last to run: it is done and nothing after it has started.
LatestDone(k) ==
    /\ kstat[k] = "done"
    /\ \A j \in 1 .. Len(kstat) : j > k => kstat[j] = "queued"

\* The values a thread of the latest kernel can have loaded: each entry as it
\* was when the kernel started or as the kernel left it.
LoadedVectors ==
    {[c \in Cols |-> IF c \in S THEN x[c] ELSE xPre[c]] : S \in SUBSET Cols}

\* The sweep kernels of the forward loop of ComputeSYMGS.
ForwardSweeps ==
    {k \in KernelsOfKind("sweep") :
        Cardinality({j \in BlockKernels : j <= k}) <= nblocks}

\* r[row] minus the off-diagonal entries of slots p.. with a column below
\* bound.
RECURSIVE RowSumBelow(_, _, _, _)
RowSumBelow(v, row, p, bound) ==
    IF p > Len(ell[row]) THEN rhs[row]
    ELSE IF ell[row][p] # row /\ ell[row][p] < bound
    THEN MulSub(RowSumBelow(v, row, p + 1, bound), EllVal(row, p), v[ell[row][p]])
    ELSE RowSumBelow(v, row, p + 1, bound)

RECURSIVE UpperSum(_, _, _, _)
UpperSum(v, row, p, offset) ==
    IF p > Len(ell[row]) THEN Mul(xPre[row], EllVal(row, DiagIdx(row)))
    ELSE IF ell[row][p] >= offset /\ ell[row][p] < NumRows
    THEN MulSub(UpperSum(v, row, p + 1, offset), EllVal(row, p), v[ell[row][p]])
    ELSE UpperSum(v, row, p + 1, offset)

\* The loaded values in which the row's own entry is its forward value.
LoadedVectorsOf(row) == {v \in LoadedVectors : v[row] = xPre[row]}

\* C20: in the backward sweep of ComputeSYMGSZeroGuess each row multiplies
\* its forward value by its diagonal value, subtracts A[row,col]*x[col] for
\* exactly the entries in slots at or above the diagonal slot with a column
\* >= the block's offset and < m, and divides by the diagonal value.
C20_SlotsFromDiagonal ==
    \A k \in KernelsOfKind("backward0") :
        LatestDone(k) =>
            \A t \in KernelThreads(launched[k]) :
                \E v \in LoadedVectorsOf(t) :
                    x[t] = Div(UpperSum(v, t, DiagIdx(t), OffsetOf(launched[k].blk)),
                               EllVal(t, DiagIdx(t)))

\* C20 (amended): in the backward sweep of ComputeSYMGSZeroGuess each row
\* multiplies its forward value by its diagonal value, subtracts
\* A[row,col]*x[col] for exactly the entries in slots strictly above the
\* diagonal slot with a column >= the block's offset and < m, and divides by
\* the diagonal value.
C20_SlotsAboveDiagonal ==
    \A k \in KernelsOfKind("backward0") :
        LatestDone(k) =>
            \A t \in KernelThreads(launched[k]) :
                \E v \in LoadedVectorsOf(t) :
                    x[t] = Div(UpperSum(v, t, DiagIdx(t) + 1, OffsetOf(launched[k].blk)),
                               EllVal(t, DiagIdx(t)))

\* A backward sweep of the zero-guess smoother has run over a row with a
\* nonzero forward value and an entry above the diagonal with nonzero x.
C20_Witness ==
    \E k \in KernelsOfKind("backward0") :
        /\ LatestDone(k)
        /\ \E t \in KernelThreads(launched[k]) : \E p \in 1 .. Len(ell[t]) :
              /\ p > DiagIdx(t)
              /\ ell[t][p] < NumRows
              /\ xPre[t] # 0
              /\ x[ell[t][p]] # 0

(***************************************************************************)
(* The zero-guess smoother and the ghost entries.                          *)
(***************************************************************************)
InZeroGuess == call \in {"zero", "zeroReturned"}

\* The entries of x past the local rows.
GhostCols == NumRows .. (NumCols - 1)

\* The calls of a program that are part of the halo exchange.
HaloCalls(prog) ==
    {j \in 1 .. Len(prog) :
        \/ prog[j].op \in {"prepare", "exchange", "obtain"}
        \/ prog[j].kind = "halo"}

\* C21: whatever the number of domains, ComputeSYMGSZeroGuess calls neither
\* PrepareSendBuffer, ExchangeHaloAsync nor ObtainRecvBuffer and launches no
\* halo kernel, none of its kernels loads or stores an entry of x at an index
\* >= localNumberOfRows, and the ghost entries of x stay as they were on
\* entry.
C21_ZeroGuessLocalOnly ==
    /\ [](InZeroGuess =>
            /\ HaloCalls(ZeroGuessProgram) = {}
            /\ KernelsOfKind("halo") = {}
            /\ \A k \in 1 .. Len(launched) : \A t \in KernelThreads(launched[k]) :
                  /\ TargetRow(launched[k], t) < NumRows
                  /\ \A c \in ThreadReadColumns(launched[k], t) : c < NumRows
            /\ \A c \in GhostCols : x[c] = x0[c])
    /\ [][call = "zero" => sendBuf' = sendBuf /\ recvDone' = recvDone]_vars

\* With two domains the zero-guess smoother has finished; its backward sweep
\* ran over a row with a ghost column, and the ghost entry of x is not zero.
C21_Witness ==
    /\ call = "zeroReturned"
    /\ AllKernelsDone
    /\ GeomSize > 1
    /\ x[NumRows] # 0
    /\ \E k \in KernelsOfKind("backward0") : \E t \in KernelThreads(launched[k]) :
          \E p \in 1 .. Len(ell[t]) : ell[t][p] = NumRows

(***************************************************************************)
(* The backward pass and the last block.                                   *)
(***************************************************************************)
LastBlock == nblocks - 1

\* The forward pass has just ended: the kernel of the last block is done and
\* no kernel of the backward pass has started.
ForwardPassDone(kind) ==
    \E k \in KernelsOfKind(kind) :
        /\ launched[k].blk = LastBlock
        /\ LatestDone(k)
        /\ \A j \in KernelsOfKind(kind) : j < k => launched[j].blk < LastBlock

\* What kernel_symgs_sweep stores for a row, from the entries of v.
SweepValue(v, row) == Mul(RowSumBelow(v, row, 1, NumCols), InvDiag(row))

\* v[row] times the diagonal value, minus the entries of slots p.. with a
\* column in [offset, m).
RECURSIVE UpperTerms(_, _, _, _)
UpperTerms(v, row, p, offset) ==
    IF p > Len(ell[row]) THEN Mul(v[row], EllVal(row, DiagIdx(row)))
    ELSE IF ell[row][p] >= offset /\ ell[row][p] < NumRows
    THEN MulSub(UpperTerms(v, row, p + 1, offset), EllVal(row, p), v[ell[row][p]])
    ELSE UpperTerms(v, row, p + 1, offset)

\* What kernel_backward_sweep_0 stores for a row, from the entries of v.
BackwardValue(v, row, offset) ==
    Div(UpperTerms(v, row, DiagIdx(row) + 1, offset), EllVal(row, DiagIdx(row)))

LastBlockRows == OffsetOf(LastBlock) .. (OffsetOf(LastBlock) + SizeOf(LastBlock) - 1)

\* C22: with ublocks = nblocks - 2, the backward pass, which starts at block
\* nblocks - 2, gives the x of a backward pass that starts at block
\* nblocks - 1: right after the forward pass the backward kernel applied to
\* the last block would leave every row of that block as it is, in
\* ComputeSYMGS and in ComputeSYMGSZeroGuess.
C22_LastBlockSkipped ==
    /\ (call = "symgs" /\ ForwardPassDone("sweep")) =>
          /\ ublocks = nblocks - 2
          /\ \A t \in LastBlockRows : SweepValue(x, t) = x[t]
    /\ (call = "zero" /\ ForwardPassDone("forward0")) =>
          /\ ublocks = nblocks - 2
          /\ \A t \in LastBlockRows : BackwardValue(x, t, OffsetOf(LastBlock)) = x[t]

(***************************************************************************)
(* The ghost terms of the forward pass of ComputeSYMGS.                    *)
(***************************************************************************)
\* The kernels of the forward pass: interior, halo and the forward sweeps.
ForwardKernels ==
    KernelsOfKind("interior") \cup KernelsOfKind("halo") \cup ForwardSweeps

\* The loads of a ghost entry of x made for row i in the forward pass:
\* kernel, thread and position in the thread's loads.
GhostLoads(i) ==
    {ld \in ForwardKernels \X (0 .. NumRows) \X (1 .. NumCols) :
        /\ ld[2] \in KernelThreads(launched[ld[1]])
        /\ TargetRow(launched[ld[1]], ld[2]) = i
        /\ ld[3] <= Len(ThreadReads(launched[ld[1]], ld[2]))
        /\ ThreadReads(launched[ld[1]], ld[2])[ld[3]][1] >= NumRows}

\* The stored entries of row i with a ghost column.
GhostEntries(i) == {p \in 1 .. Len(ell[i]) : ell[i][p] >= NumRows}

\* The vectors that agree with x outside block 0.
Block0Vectors == {v \in [Cols -> Values] : \A c \in Cols : c >= SizeOf(0) => v[c] = x[c]}

\* C23: in the forward pass of distributed ComputeSYMGS every stored entry
\* with a ghost column has its term A[row,col]*x[col] subtracted exactly once
\* from the row's value: by kernel_symgs_halo for the rows of block 0, whose
\* interior kernel skips those columns, and by kernel_symgs_sweep for the
\* rows of the later blocks, which the halo kernel skips.
C23_GhostTermOnce ==
    /\ (call = "symgs" /\ GeomSize > 1 /\ ForwardPassDone("sweep")) =>
          \A i \in Rows :
              /\ Cardinality(GhostLoads(i)) = Cardinality(GhostEntries(i))
              /\ \A ld \in GhostLoads(i) :
                    launched[ld[1]].kind = (IF i < SizeOf(0) THEN "halo" ELSE "sweep")
    /\ (GeomSize > 1 /\ HaloLaunchDone) =>
          \A t \in 0 .. (SizeOf(0) - 1) :
              \E v \in Block0Vectors : x[t] = SweepValue(v, t)

\* The forward pass has ended with two domains, a nonzero ghost entry and a
\* row with a ghost column in block 0.
C23_Witness ==
    /\ call = "symgs"
    /\ GeomSize > 1
    /\ ForwardPassDone("sweep")
    /\ x[NumRows] # 0
    /\ \E i \in Rows : i < SizeOf(0) /\ GhostEntries(i) # {}

(***************************************************************************)
(* The bounds of A.sizes and A.offsets.                                    *)
(***************************************************************************)
\* The largest index a round stores to: A.offsets[A.nblocks + 1] after the
\* first ++A.nblocks.
HighestStore == nblocks + 2

\* C24: every store to A.sizes[i] and A.offsets[i] in JPLColoring has
\* i < MAX_COLORS: a round runs only while nblocks + 2 < MAX_COLORS, and no
\* store past the arrays is ever reached.
C24_StoresInBounds ==
    /\ pc = "jpl" => HighestStore < MAX_COLORS
    /\ pc # "overflow"

(***************************************************************************)
(* The parallel count: kernel_count_color_part1, kernel_count_color_part2  *)
(* and reduce_sum, thread by thread.                                       *)
(***************************************************************************)
\* BLOCKSIZE of both kernels and the number of blocks of part 1 (256 and 256
\* in JPLColoring), scaled down.
CountBlockSize == 4
CountGridSize == 2

\* The strides reduce_sum tests, in its order.
AllStrides == <<512, 256, 128, 64, 32, 16, 8, 4, 2, 1>>

\* if(BLOCKSIZE > s): the strides compiled in for a block size.
RECURSIVE StridesFrom(_, _)
StridesFrom(j, bs) ==
    IF j > Len(AllStrides) THEN <<>>
    ELSE IF bs > AllStrides[j] THEN <<AllStrides[j]>> \o StridesFrom(j + 1, bs)
    ELSE StridesFrom(j + 1, bs)

Strides == StridesFrom(1, CountBlockSize)

\* Positions of a thread: at 0 it runs its loop and stores to sdata[tid]; at
\* j, after the __syncthreads before it, it makes the addition of stride j;
\* then, after the last __syncthreads, thread 0 stores the result.
StorePos == Len(Strides) + 1
EndPos == StorePos + 1

\* The sizes, colour arrays and colours counted, and what the workspace and
\* the shared arrays may hold before they are written.
CountSizes == {0, CountBlockSize - 1, CountGridSize * CountBlockSize + 2}
ColorArrays(size) ==
    {[idx \in 0 .. (size - 1) |-> idx % 2],
     [idx \in 0 .. (size - 1) |-> 0],
     [idx \in 0 .. (size - 1) |-> (idx \div 3) - 1]}
CountedColors == {0, 1}
StaleChoices == {0, 5}

CountThreads(grid) == (0 .. (grid - 1)) \X (0 .. (CountBlockSize - 1))

\* The indices a grid-stride loop visits: start, start + step, ... below size.
StridedIndices(start, size, step) ==
    {idx \in 0 .. (size - 1) : idx >= start /\ (idx - start) % step = 0}

RECURSIVE SumOver(_, _)
SumOver(f, S) ==
    IF S = {} THEN 0
    ELSE LET i == CHOOSE j \in S : TRUE IN f[i] + SumOver(f, S \ {i})

\* The private sum of a thread before reduce_sum.
LoadSum(b, t) ==
    IF countPhase = "part1"
    THEN Cardinality({idx \in StridedIndices(b * CountBlockSize + t, countIn.size,
                                              CountGridSize * CountBlockSize) :
                         countIn.colors[idx] = countIn.color})
    ELSE SumOver(workspace, StridedIndices(t, CountGridSize, CountBlockSize))

\* The __syncthreads before the last addition taken away.
BarrierOpenButLast(b, pos) ==
    pos # Len(Strides) =>
        \A id \in DOMAIN countPos : id[1] = b => countPos[id] >= pos

\* __syncthreads: a thread leaves the barrier before position pos when every
\* thread of its block has reached it.
BarrierOpen(b, pos) ==
    \A id \in DOMAIN countPos : id[1] = b => countPos[id] >= pos

\* JPLColoring launches kernel_count_color_part1 for a colour.
CountLaunch ==
    /\ countPhase = "idle"
    /\ pc = "loop"
    /\ \E size \in CountSizes, color \in CountedColors, stale \in StaleChoices :
         \E cols \in ColorArrays(size) :
            /\ countIn' = [size |-> size, colors |-> cols, color |-> color,
                           stale |-> stale]
            /\ sdata' = [id \in CountThreads(CountGridSize) |-> stale]
            /\ workspace' = [i \in 0 .. (CountGridSize - 1) |-> stale]
    /\ countPos' = [id \in CountThreads(CountGridSize) |-> 0]
    /\ countPhase' = "part1"
    /\ UNCHANGED countOut
    /\ UNCHANGED <<jplVars, symgsVars>>

\* One thread of the running kernel passes the barrier it waits at, if any,
\* and takes its next step.
CountStep(b, t) ==
    /\ countPhase \in {"part1", "part2"}
    /\ <<b, t>> \in DOMAIN countPos
    /\ LET pos == countPos[<<b, t>>]
       IN  /\ pos < EndPos
           /\ pos >= 1 => BarrierOpen(b, pos)
           /\ countPos' = [countPos EXCEPT ![<<b, t>>] = pos + 1]
           /\ sdata' =
                 IF pos = 0 THEN [sdata EXCEPT ![<<b, t>>] = LoadSum(b, t)]
                 ELSE IF pos < StorePos
                         /\ t < Strides[pos]
                         /\ t + Strides[pos] < CountBlockSize
                 THEN [sdata EXCEPT ![<<b, t>>] =
                          sdata[<<b, t>>] + sdata[<<b, t + Strides[pos]>>]]
                 ELSE sdata
           /\ workspace' =
                 IF pos = StorePos /\ t = 0
                 THEN [workspace EXCEPT ![b] = sdata[<<b, 0>>]]
                 ELSE workspace
    /\ UNCHANGED <<countPhase, countIn, countOut>>
    /\ UNCHANGED <<jplVars, symgsVars>>

KernelEnded == \A id \in DOMAIN countPos : countPos[id] = EndPos

\* Part 1 has ended; kernel_count_color_part2 starts on the same stream with
\* one block.
CountSecondKernel ==
    /\ countPhase = "part1"
    /\ KernelEnded
    /\ countPhase' = "part2"
    /\ countPos' = [id \in CountThreads(1) |-> 0]
    /\ sdata' = [id \in CountThreads(1) |-> countIn.stale]
    /\ UNCHANGED <<countIn, workspace, countOut>>
    /\ UNCHANGED <<jplVars, symgsVars>>

\* hipMemcpy(&A.sizes[...], tmp, ...) after part 2.
CountCopy ==
    /\ countPhase = "part2"
    /\ KernelEnded
    /\ countPhase' = "copied"
    /\ countOut' = workspace[0]
    /\ UNCHANGED <<countIn, countPos, sdata, workspace>>
    /\ UNCHANGED <<jplVars, symgsVars>>

InitCount ==
    /\ InitColoring({27}, {[r \in Rows |-> r]}, {{}}, {<<>>})
    /\ \A r \in Rows : mtxIndL[r] = <<r>>

NextCount ==
    \/ CountLaunch
    \/ \E id \in CountThreads(CountGridSize) : CountStep(id[1], id[2])
    \/ CountSecondKernel
    \/ CountCopy

SpecCount == InitCount /\ [][NextCount]_vars

\* C25: for every size and colour, part 1 followed by part 2 leaves in
\* workspace[0], and so on the host, the number of indices idx < size with
\* colors[idx] == color, whatever the order of the threads between the
\* barriers.
C25_CountExact ==
    countPhase = "copied" =>
        /\ countOut = Cardinality({idx \in 0 .. (countIn.size - 1) :
                                      countIn.colors[idx] = countIn.color})
        /\ workspace[0] = countOut

\* A count over more indices than part 1 has threads has come back with at
\* least three matches, over a workspace that held other values.
C25_Witness ==
    /\ countPhase = "copied"
    /\ countIn.size > CountGridSize * CountBlockSize
    /\ countIn.stale # 0
    /\ countOut >= 3
    /\ countOut < countIn.size

====
